---------------------------- MODULE Spec2Model ----------------------------
(***************************************************************************)
(* Session-key signing of x-sessions: DappService (sessionDappService.ts). *)
(*                                                                         *)
(* Field elements are symbolic terms, every one a tuple whose first        *)
(* element is a tag:                                                       *)
(*   <<"num", n>>        a number (lengths, 0/1 flags, the 0x0 padding)    *)
(*   <<"felt", s>>       a hex or short string, s in canonical form        *)
(*   <<"hmany", <<..>>>> computePoseidonHashOnElements of a sequence       *)
(*   <<"h2", {a, b}>>    computePoseidonHash of a pair sorted by value     *)
(*   <<"sn_keccak", s>>  getSelectorFromName of a name                     *)
(* Hashes are collision free, as the specification assumes of the library. *)
(***************************************************************************)
EXTENDS Integers, Sequences, FiniteSets, TLC

\* ------------------------------------------------------------------ bounds
\* accounts of one DappService, each with at most one signing request in
\* progress at a time
MaxReq == 2
\* length of a session's allowed_methods
MaxMethods == 3
\* length of a call batch
MaxCalls == 2
\* settled signTransaction calls of one signer that are kept on record
MaxAttempts == 2

\* the slots: one Account with its SessionSigner each
ReqIds == 1..MaxReq

\* ------------------------------------------------------------------- state
VARIABLES
    signers,   \* per slot: the closure of the SessionSigner of one Account
    reqs,      \* per slot: the signTransaction call in progress; proofTreeRoot
               \* notes the root of the tree getSessionProofs built
    backend,   \* per slot: the call argentBackend.signTxAndSession received
               \* and how its promise settled
    log,       \* the signTransaction calls that have settled, oldest first,
               \* each with the call the guardian backend received for it
    outside,   \* a caller's use of getOutsideExecutionCall on the service:
               \* its arguments and how the call expression ended
    exec       \* the execute call of an offchain-session account: its
               \* arguments, locals, the calls it has made in order (trace)
               \* and what it submitted

vars == <<signers, reqs, backend, log, outside, exec>>

\* what the signing operations of DappService leave alone
beyond == <<log, outside, exec>>

\* ------------------------------------------------------------ input values
\* Address strings as callers write them: "0x0abc" and "0xabc" are two
\* strings for one field element.
AddrStrings == {"0xabc", "0x0abc", "0xdef"}
EntryNames == {"transfer", "other"}

Num(n) == <<"num", n>>
Str(s) == <<"felt", s>>

\* BigInt(x) of a hex string: leading zeros do not count.
BigInt(s) == IF s = "0x0abc" THEN Str("0xabc") ELSE Str(s)

\* +cacheAuthorisation, and CallData.compile of a boolean
BoolNum(b) == IF b THEN Num(1) ELSE Num(0)

AllowedMethod(a, n) == [ContractAddress |-> a, selector |-> n]
Call(a, n) == [contractAddress |-> a, entrypoint |-> n, calldata |-> <<>>]

MethodUniverse == {AllowedMethod("0xabc", "transfer"), AllowedMethod("0xdef", "other")}
CallUniverse ==
    {Call("0xabc", "transfer"), Call("0x0abc", "transfer"), Call("0xdef", "other")}

SeqsUpTo(S, n) == UNION {[1..k -> S] : k \in 0..n}

\* An OffChainSession. Only allowed_methods varies; the other three fields
\* are fixed values of the shape the test suite uses.
SessionRequestOf(methods) ==
    [expires_at       |-> Num(1234567890),
     allowed_methods  |-> methods,
     metadata         |-> <<"{", "}">>,
     session_key_guid |-> Str("0x116d")]

SessionRequests == {SessionRequestOf(m) : m \in SeqsUpTo(MethodUniverse, MaxMethods)}
CallBatches == SeqsUpTo(CallUniverse, MaxCalls)

AuthorizationSignatures == {<<Str("signature1"), Str("signature2")>>}
\* with the signature of an owner that signs with three elements
LongAuthorizationSignatures ==
    AuthorizationSignatures \cup {<<Str("0x1"), Str("0x2"), Str("0x3")>>}

\* ------------------------------------------------- the DappService's fields
chainId == Str("SN_GOERLI")
dappKey == [privateKey |-> Str("dapp-private"), publicKey |-> Str("dapp-public")]

ALLOWED_METHOD_HASH == Str("ALLOWED_METHOD_HASH")
SESSION_MAGIC == Str("session-token")

\* --------------------------------------------------------- library hashing
\* hash.computePoseidonHashOnElements
computePoseidonHashOnElements(elements) == <<"hmany", elements>>
\* selector.getSelectorFromName
getSelectorFromName(name) == <<"sn_keccak", name>>

\* MerkleTree.hash(a, b, computePoseidonHash): the pair is sorted by value
\* before it is hashed, so the result depends on the unordered pair only.
MerkleTreeHash(a, b) == <<"h2", {a, b}>>

\* what JavaScript yields for an index outside an array
Undefined == <<"undefined">>

\* Array.prototype.indexOf / findIndex, 1-based; 0 stands for -1
IndexOf(seq, x) ==
    IF \E i \in 1..Len(seq) : seq[i] = x
    THEN CHOOSE i \in 1..Len(seq) : seq[i] = x /\ \A j \in 1..(i - 1) : seq[j] # x
    ELSE 0

At(seq, i) == IF i \in 1..Len(seq) THEN seq[i] ELSE Undefined

\* one round of MerkleTree.build: pairs hashed, an odd last node with 0x0
NextLevel(level) ==
    [i \in 1..((Len(level) + 1) \div 2) |->
        IF 2 * i <= Len(level)
        THEN MerkleTreeHash(level[2 * i - 1], level[2 * i])
        ELSE MerkleTreeHash(level[2 * i - 1], Num(0))]

\* MerkleTree.build recurses for ever on no leaves (a RangeError in the caller)
MerkleTreeThrows(leafHashes) == Len(leafHashes) = 0

RECURSIVE MerkleRoot(_)
MerkleRoot(level) ==
    IF Len(level) = 1 THEN level[1] ELSE MerkleRoot(NextLevel(level))

\* this.branches: every level above the leaves that has more than one node
RECURSIVE MerkleBranches(_)
MerkleBranches(level) ==
    IF Len(level) = 1 THEN <<>>
    ELSE LET up == NextLevel(level)
         IN  IF Len(up) = 1 THEN <<>> ELSE <<up>> \o MerkleBranches(up)

\* new merkle.MerkleTree(leaves, hash.computePoseidonHash), leaves non-empty
MerkleTree(leafHashes) ==
    [leaves   |-> leafHashes,
     branches |-> MerkleBranches(leafHashes),
     root     |-> MerkleRoot(leafHashes)]

\* MerkleTree.getProof(leaf, branch, hashPath): throws 'leaf not found' when
\* the node is not in the level, else the sibling path towards the root.
RECURSIVE getProof(_, _, _, _)
getProof(tree, leaf, branch, hashPath) ==
    LET index == IndexOf(branch, leaf)
    IN  IF index = 0 THEN [thrown |-> TRUE, path |-> <<>>]
        ELSE IF Len(branch) = 1 THEN [thrown |-> FALSE, path |-> hashPath]
        ELSE
          LET isLeft == index % 2 = 1
              neededBranch ==
                  IF isLeft
                  THEN (IF index + 1 <= Len(branch) THEN branch[index + 1] ELSE Num(0))
                  ELSE branch[index - 1]
              currentBranchLevelIndex ==
                  IF Len(tree.leaves) = Len(branch) THEN 0
                  ELSE IF \E j \in 1..Len(tree.branches) :
                              Len(tree.branches[j]) = Len(branch)
                       THEN CHOOSE j \in 1..Len(tree.branches) :
                              /\ Len(tree.branches[j]) = Len(branch)
                              /\ \A k \in 1..(j - 1) :
                                    Len(tree.branches[k]) # Len(branch)
                       ELSE 0
              nextBranch ==
                  IF currentBranchLevelIndex + 1 <= Len(tree.branches)
                  THEN tree.branches[currentBranchLevelIndex + 1]
                  ELSE <<tree.root>>
          IN  getProof(tree, MerkleTreeHash(leaf, neededBranch), nextBranch,
                       Append(hashPath, neededBranch))

\* merkle.proofMerklePath(root, leaf, path, computePoseidonHash)
RECURSIVE proofMerklePath(_, _, _)
proofMerklePath(root, leaf, path) ==
    IF Len(path) = 0 THEN root = leaf
    ELSE proofMerklePath(root, MerkleTreeHash(leaf, Head(path)), Tail(path))

\* ------------------------------------------- Permission Commitment Builder
\* the leaf of one (contract address, entry name) pair
MethodLeaf(address, name) ==
    computePoseidonHashOnElements(
        <<ALLOWED_METHOD_HASH, BigInt(address), getSelectorFromName(name)>>)

buildMerkleTreeLeaves(sessionRequest) ==
    [i \in 1..Len(sessionRequest.allowed_methods) |->
        MethodLeaf(sessionRequest.allowed_methods[i].ContractAddress,
                   sessionRequest.allowed_methods[i].selector)]

buildMerkleTreeThrows(sessionRequest) ==
    MerkleTreeThrows(buildMerkleTreeLeaves(sessionRequest))

buildMerkleTree(sessionRequest) == MerkleTree(buildMerkleTreeLeaves(sessionRequest))

\* the findIndex of getSessionProofs: the strings are compared, not the values
allowedIndexOf(sessionRequest, call) ==
    LET am == sessionRequest.allowed_methods
        hit(i) == /\ am[i].ContractAddress = call.contractAddress
                  /\ am[i].selector = call.entrypoint
    IN  IF \E i \in 1..Len(am) : hit(i)
        THEN CHOOSE i \in 1..Len(am) : hit(i) /\ \A j \in 1..(i - 1) : ~hit(j)
        ELSE 0

\* a lookup in which index -1 wraps round to the last leaf
callProofWrapping(sessionRequest, tree, call) ==
    LET i == allowedIndexOf(sessionRequest, call)
    IN  getProof(tree, At(tree.leaves, IF i = 0 THEN Len(tree.leaves) ELSE i),
                 tree.leaves, <<>>)

\* one element of the calls.map of getSessionProofs
callProof(sessionRequest, tree, call) ==
    getProof(tree, At(tree.leaves, allowedIndexOf(sessionRequest, call)),
             tree.leaves, <<>>)

\* proofs collected from the last call to the first
getSessionProofsReversed(sessionRequest, calls) ==
    LET tree == buildMerkleTree(sessionRequest)
        each == [i \in 1..Len(calls) |->
                    callProof(sessionRequest, tree, calls[Len(calls) + 1 - i])]
    IN  [thrown |-> buildMerkleTreeThrows(sessionRequest)
                    \/ \E i \in 1..Len(calls) : each[i].thrown,
         proofs |-> [i \in 1..Len(calls) |-> each[i].path],
         root   |-> tree.root]

\* getSessionProofs: the proofs in call order, or the first throw
getSessionProofs(sessionRequest, calls) ==
    LET tree == buildMerkleTree(sessionRequest)
        each == [i \in 1..Len(calls) |-> callProof(sessionRequest, tree, calls[i])]
    IN  [thrown |-> buildMerkleTreeThrows(sessionRequest)
                    \/ \E i \in 1..Len(calls) : each[i].thrown,
         proofs |-> [i \in 1..Len(calls) |-> each[i].path],
         root   |-> tree.root]

\* ------------------------------------------------------ Session Hash Engine
\* byteArray.byteArrayFromString: 31-character words, the rest pending
byteArrayFromString(str) ==
    LET full == Len(str) \div 31
    IN  [data             |-> [i \in 1..full |->
                                  <<"bytes", SubSeq(str, 31 * (i - 1) + 1, 31 * i)>>],
         pending_word     |-> <<"bytes", SubSeq(str, 31 * full + 1, Len(str))>>,
         pending_word_len |-> Len(str) % 31]

metadataHashOf(sessionRequest) ==
    LET bArray == byteArrayFromString(sessionRequest.metadata)
        elements == <<Num(Len(bArray.data))>> \o bArray.data
                    \o <<bArray.pending_word, Num(bArray.pending_word_len)>>
    IN  computePoseidonHashOnElements(elements)

Reverse(seq) == [i \in 1..Len(seq) |-> seq[Len(seq) + 1 - i]]

\* a session whose root is built from the allowed methods in reverse
compileSessionHelperReversed(sessionRequest) ==
    [expires_at           |-> sessionRequest.expires_at,
     allowed_methods_root |->
         MerkleTree(Reverse(buildMerkleTreeLeaves(sessionRequest))).root,
     metadata_hash        |-> metadataHashOf(sessionRequest),
     session_key_guid     |-> sessionRequest.session_key_guid]

\* compileSessionHelper: the OnChainSession (buildMerkleTree must not throw)
compileSessionHelper(sessionRequest) ==
    [expires_at           |-> sessionRequest.expires_at,
     allowed_methods_root |-> buildMerkleTree(sessionRequest).root,
     metadata_hash        |-> metadataHashOf(sessionRequest),
     session_key_guid     |-> sessionRequest.session_key_guid]

\* getSessionTypedData(sessionRequest, chainId): the chain-bound document of
\* the session (expiry, root, metadata hash, key id)
getSessionTypedData(sessionRequest, chain) ==
    [primaryType |-> "Session",
     domain      |-> chain,
     message     |-> compileSessionHelper(sessionRequest)]

\* typedData.getMessageHash(typedData, accountAddress)
getMessageHash(sessionTypedData, accountAddress) ==
    <<"typedDataHash", sessionTypedData, BigInt(accountAddress)>>

\* a combined hash that leaves the cache flag out
sessionWithTxHashNoFlag(transactionHash, accountAddress, sessionTypedData, cacheAuthorisation) ==
    computePoseidonHashOnElements(
        <<transactionHash, getMessageHash(sessionTypedData, accountAddress)>>)

\* the value the session key signs
sessionWithTxHash(transactionHash, accountAddress, sessionTypedData, cacheAuthorisation) ==
    computePoseidonHashOnElements(
        <<transactionHash,
          getMessageHash(sessionTypedData, accountAddress),
          BoolNum(cacheAuthorisation)>>)

\* a signature with a nonce drawn anew for each call, here the number of
\* calls settled so far
starkCurveSignFreshNonce(msgHash, privateKey) ==
    <<<<"sig_r", msgHash, privateKey, Len(log)>>,
      <<"sig_s", msgHash, privateKey, Len(log)>>>>

\* ec.starkCurve.sign(msgHash, privateKey): deterministic, [r, s]
starkCurveSign(msgHash, privateKey) ==
    <<<<"sig_r", msgHash, privateKey>>, <<"sig_s", msgHash, privateKey>>>>

\* a session signature bound to the address the Account was created with
signTxAndSessionOfOwnAddress(transactionHash, accountAddress, sessionTypedData, cacheAuthorisation) ==
    starkCurveSign(
        sessionWithTxHash(transactionHash, "0x111", sessionTypedData,
                          cacheAuthorisation),
        dappKey.privateKey)

\* DappService.signTxAndSession
signTxAndSession(transactionHash, accountAddress, sessionTypedData, cacheAuthorisation) ==
    starkCurveSign(
        sessionWithTxHash(transactionHash, accountAddress, sessionTypedData,
                          cacheAuthorisation),
        dappKey.privateKey)

\* ---------------------------------------------------- Session-Bound Signer
\* RPC.ETransactionVersion2 and RPC.ETransactionVersion3
ETransactionVersion2 ==
    {"0x0", "0x1", "0x2", "0x100000000000000000000000000000000",
     "0x100000000000000000000000000000001", "0x100000000000000000000000000000002"}
ETransactionVersion3 == {"0x3", "0x100000000000000000000000000000003"}

\* data-availability codes counted from one
intDAMFromOne(dam) == IF dam = "L1" THEN Num(1) ELSE Num(2)

\* stark.intDAM
intDAM(dam) == IF dam = "L1" THEN Num(0) ELSE Num(1)

\* transaction.getExecuteCalldata(calls, "1")
RECURSIVE callsCalldata(_)
callsCalldata(calls) ==
    IF Len(calls) = 0 THEN <<>>
    ELSE <<BigInt(Head(calls).contractAddress),
           getSelectorFromName(Head(calls).entrypoint),
           Num(Len(Head(calls).calldata))>>
         \o Head(calls).calldata \o callsCalldata(Tail(calls))

getExecuteCalldata(calls) == <<Num(Len(calls))>> \o callsCalldata(calls)

\* a version test that hashes what it does not know with the V2 formula
versionFamilyWithFallback(version) ==
    IF version \in ETransactionVersion3 THEN "V3" ELSE "V2"

\* the version test of signTransaction: "V2", "V3" or "unsupported"
versionFamily(version) ==
    IF version \in ETransactionVersion2 THEN "V2"
    ELSE IF version \in ETransactionVersion3 THEN "V3"
    ELSE "unsupported"

\* hash.calculateInvokeTransactionHash on the arguments of either branch
transactionHashOf(calls, details) ==
    IF versionFamily(details.version) = "V2"
    THEN <<"invokeHashV2",
           [senderAddress    |-> BigInt(details.walletAddress),
            version          |-> details.version,
            compiledCalldata |-> getExecuteCalldata(calls),
            maxFee           |-> details.maxFee,
            chainId          |-> details.chainId,
            nonce            |-> details.nonce]>>
    ELSE <<"invokeHashV3",
           [senderAddress    |-> BigInt(details.walletAddress),
            version          |-> details.version,
            compiledCalldata |-> getExecuteCalldata(calls),
            chainId          |-> details.chainId,
            nonce            |-> details.nonce,
            nonceDataAvailabilityMode |-> intDAM(details.nonceDataAvailabilityMode),
            feeDataAvailabilityMode   |-> intDAM(details.feeDataAvailabilityMode)]>>

\* ---------------------------------------------------- Session Token Compiler
\* getStarknetSignatureType: the signature tagged for on-chain dispatch
getStarknetSignatureType(pubkey, signature) ==
    [variant |-> "Starknet", pubkey |-> pubkey, r |-> signature[1], s |-> signature[2]]

\* a token with the authorization signature back to front
compileSessionTokenHelperReversingAuthorization(session, sessionRequest, calls, sessionSignature, session_authorization, guardianSignature, cache_authorization) ==
    [session               |-> session,
     cache_authorization   |-> cache_authorization,
     session_authorization |-> Reverse(session_authorization),
     sessionSignature      |-> getStarknetSignatureType(dappKey.publicKey, sessionSignature),
     guardianSignature     |-> getStarknetSignatureType(
                                   guardianSignature.publicKey,
                                   <<guardianSignature.r, guardianSignature.s>>),
     proofs                |-> getSessionProofs(sessionRequest, calls).proofs]

\* a token whose session signature is tagged with the wrong half of dappKey
compileSessionTokenHelperWithPrivateKey(session, sessionRequest, calls, sessionSignature, session_authorization, guardianSignature, cache_authorization) ==
    [session               |-> session,
     cache_authorization   |-> cache_authorization,
     session_authorization |-> session_authorization,
     sessionSignature      |-> getStarknetSignatureType(dappKey.privateKey, sessionSignature),
     guardianSignature     |-> getStarknetSignatureType(
                                   guardianSignature.publicKey,
                                   <<guardianSignature.r, guardianSignature.s>>),
     proofs                |-> getSessionProofs(sessionRequest, calls).proofs]

\* compileSessionTokenHelper, once getSessionProofs has not thrown
compileSessionTokenHelper(session, sessionRequest, calls, sessionSignature, session_authorization, guardianSignature, cache_authorization) ==
    [session               |-> session,
     cache_authorization   |-> cache_authorization,
     session_authorization |-> session_authorization,
     sessionSignature      |-> getStarknetSignatureType(dappKey.publicKey, sessionSignature),
     guardianSignature     |-> getStarknetSignatureType(
                                   guardianSignature.publicKey,
                                   <<guardianSignature.r, guardianSignature.s>>),
     proofs                |-> getSessionProofs(sessionRequest, calls).proofs]

\* CallData.compile of an array: its length, then its elements
compileArray(arr) == <<Num(Len(arr))>> \o arr

\* CallData.compile of a custom enum: the variant, then its fields
compileEnum(e) == <<<<"variant", e.variant>>, e.pubkey, e.r, e.s>>

RECURSIVE compileArrays(_)
compileArrays(arrs) ==
    IF Len(arrs) = 0 THEN <<>>
    ELSE compileArray(Head(arrs)) \o compileArrays(Tail(arrs))

\* CallData.compile(sessionToken): the fields flattened in declaration order
CallDataCompile(token) ==
    <<token.session.expires_at, token.session.allowed_methods_root,
      token.session.metadata_hash, token.session.session_key_guid,
      BoolNum(token.cache_authorization)>>
    \o compileArray(token.session_authorization)
    \o compileEnum(token.sessionSignature)
    \o compileEnum(token.guardianSignature)
    \o <<Num(Len(token.proofs))>> \o compileArrays(token.proofs)

\* an array with the marker after the token
signatureArrayMagicLast(token) == CallDataCompile(token) \o <<SESSION_MAGIC>>

\* the array compileSessionSignature returns
signatureArray(token) == <<SESSION_MAGIC>> \o CallDataCompile(token)

\* ------------------------------------------------------------------ inputs
\* InvocationsSignerDetails of one wallet; the version decides the family
SignerDetailsOf(version) ==
    [walletAddress |-> "0x111",
     version       |-> version,
     cairoVersion  |-> "1",
     chainId       |-> chainId,
     nonce         |-> Num(1),
     maxFee        |-> Num(1000),
     nonceDataAvailabilityMode |-> "L1",
     feeDataAvailabilityMode   |-> "L2"]

\* V2 versions and V3 versions, each with a query version, and one that is
\* neither
Versions ==
    {"0x1", "0x2", "0x100000000000000000000000000000001",
     "0x3", "0x100000000000000000000000000000003", "0x4"}
\* the wallets whose transactions a signer may be asked to sign
WalletAddresses == {"0x111", "0x222"}
SignerDetails ==
    {[SignerDetailsOf(v) EXCEPT !.walletAddress = w] :
        v \in Versions, w \in WalletAddresses}

\* the cacheAuthorisation argument: omitted, true or false
CacheArgs == {<<>>, <<TRUE>>, <<FALSE>>}

\* what the guardian backend may answer
GuardianSignatures == {[publicKey |-> Str("0x123"), r |-> Num(10), s |-> Num(10)]}
GuardianErrors == {"network error", "rejected", "timeout"}

\* the inputs of the specification with concurrent requests
ConcurrentSessionRequests ==
    {SessionRequestOf(<<AllowedMethod("0xabc", "transfer")>>),
     SessionRequestOf(<<AllowedMethod("0xabc", "transfer"),
                        AllowedMethod("0xdef", "other")>>)}
ConcurrentCallBatches == {<<Call("0xabc", "transfer")>>, <<Call("0xdef", "other")>>}
ConcurrentSignerDetails == {SignerDetailsOf("0x1"), SignerDetailsOf("0x4")}
ConcurrentGuardianErrors == {"network error"}

\* ----------------------------------------------------------- initial state
IdleReq ==
    [pc               |-> "idle",
     args             |-> <<>>,
     transactionHash  |-> <<>>,
     session          |-> <<>>,
     sessionTypedData |-> <<>>,
     sessionSignature |-> <<>>,
     token            |-> <<>>,
     proofTreeRoot    |-> <<>>,
     result           |-> <<>>,
     error            |-> ""]

\* no execute call made
IdleExec ==
    [pc            |-> "idle",
     variant       |-> "",
     calls         |-> <<>>,
     second        |-> <<>>,
     third         |-> <<>>,
     transactions  |-> <<>>,
     details       |-> <<>>,
     chainId       |-> <<>>,
     nonce         |-> <<>>,
     maxFee        |-> <<>>,
     signerDetails |-> <<>>,
     dappSignature |-> <<>>,
     submitted     |-> <<>>,
     response      |-> <<>>,
     trace         |-> <<>>,
     error         |-> ""]

Init ==
    /\ signers = [r \in ReqIds |-> <<>>]
    /\ reqs = [r \in ReqIds |-> IdleReq]
    /\ backend = [r \in ReqIds |-> <<>>]
    /\ log = <<>>
    /\ outside = <<>>
    /\ exec = IdleExec

\* -------------------------------------------------------------- operations
\* a closure whose cache flag is set unless the caller clears it
sessionSignerOfCachingByDefault(address, sessionRequest, sessionAuthorizationSignature, cacheArg) ==
    [address                       |-> address,
     sessionRequest                |-> sessionRequest,
     sessionAuthorizationSignature |-> sessionAuthorizationSignature,
     cacheAuthorisation            |-> IF cacheArg = <<>> THEN TRUE ELSE cacheArg[1]]

\* the closure getAccountWithSessionSigner builds; cacheAuthorisation
\* defaults to false
sessionSignerOf(address, sessionRequest, sessionAuthorizationSignature, cacheArg) ==
    [address                       |-> address,
     sessionRequest                |-> sessionRequest,
     sessionAuthorizationSignature |-> sessionAuthorizationSignature,
     cacheAuthorisation            |-> IF cacheArg = <<>> THEN FALSE ELSE cacheArg[1]]

\* the arguments the SessionSigner's callback hands to signTransaction
signTransactionArgs(signer, calls, invocationSignerDetails) ==
    [sessionAuthorizationSignature |-> signer.sessionAuthorizationSignature,
     sessionRequest                |-> signer.sessionRequest,
     calls                         |-> calls,
     invocationSignerDetails       |-> invocationSignerDetails,
     cacheAuthorisation            |-> signer.cacheAuthorisation]

failedReq(req, message) == [req EXCEPT !.pc = "failed", !.error = message]

\* signTransaction and compileSessionSignature up to the first suspension,
\* the await of the session key's signature
signTransactionStep(a) ==
    LET req == [IdleReq EXCEPT !.args = <<a>>]
        details == a.invocationSignerDetails
        sessionTypedData == getSessionTypedData(a.sessionRequest, chainId)
        transactionHash == transactionHashOf(a.calls, details)
    IN  IF versionFamily(details.version) = "unsupported"
        THEN failedReq(req, "unsupported signTransaction version")
        ELSE IF buildMerkleTreeThrows(a.sessionRequest)
        THEN failedReq(req, "RangeError: Maximum call stack size exceeded")
        ELSE [req EXCEPT
                !.pc = "signed",
                !.transactionHash = transactionHash,
                !.session = <<compileSessionHelper(a.sessionRequest)>>,
                !.sessionTypedData = <<sessionTypedData>>,
                !.sessionSignature =
                    signTxAndSession(transactionHash, details.walletAddress,
                                     sessionTypedData, a.cacheAuthorisation)]

\* a guardian request that takes the session signature from a field all
\* requests of the service write
guardianRequestOfSharedSignature(req) ==
    [calls                   |-> req.args[1].calls,
     invocationSignerDetails |-> req.args[1].invocationSignerDetails,
     sessionTypedData        |-> req.sessionTypedData[1],
     sessionSignature        |->
         IF \E q \in ReqIds : reqs[q].pc = "signed" /\ reqs[q] # req
         THEN reqs[CHOOSE q \in ReqIds : reqs[q].pc = "signed" /\ reqs[q] # req]
                  .sessionSignature
         ELSE req.sessionSignature,
     cacheAuthorisation      |-> req.args[1].cacheAuthorisation]

\* a guardian request that leaves the cache flag at its default
guardianRequestOfDefaultFlag(req) ==
    [calls                   |-> req.args[1].calls,
     invocationSignerDetails |-> req.args[1].invocationSignerDetails,
     sessionTypedData        |-> req.sessionTypedData[1],
     sessionSignature        |-> req.sessionSignature,
     cacheAuthorisation      |-> FALSE]

\* the arguments of argentBackend.signTxAndSession
guardianRequestOf(req) ==
    [calls                   |-> req.args[1].calls,
     invocationSignerDetails |-> req.args[1].invocationSignerDetails,
     sessionTypedData        |-> req.sessionTypedData[1],
     sessionSignature        |-> req.sessionSignature,
     cacheAuthorisation      |-> req.args[1].cacheAuthorisation]

\* the guardian answered: compileSessionTokenHelper and the returned array
resumeWithGuardianSignature(req, guardianSignature) ==
    LET a == req.args[1]
        token == compileSessionTokenHelper(
                     req.session[1], a.sessionRequest, a.calls, req.sessionSignature,
                     a.sessionAuthorizationSignature, guardianSignature,
                     a.cacheAuthorisation)
    IN  IF getSessionProofs(a.sessionRequest, a.calls).thrown
        THEN failedReq(req, "leaf not found")
        ELSE [req EXCEPT !.pc = "done",
                         !.token = <<token>>,
                         !.proofTreeRoot =
                             getSessionProofs(a.sessionRequest, a.calls).root,
                         !.result = signatureArray(token)]

\* a catch around the guardian call that goes on to return an array
resumeSwallowingGuardianError(req, err) ==
    [req EXCEPT !.pc = "done", !.result = <<SESSION_MAGIC>>]

\* the guardian call rejected: the await throws, nothing catches it
resumeWithGuardianError(req, err) == failedReq(req, err)

GetAccountWithSessionSigner(r, sessionRequest, sessionAuthorizationSignature, cacheArg) ==
    /\ signers[r] = <<>>
    /\ signers' = [signers EXCEPT ![r] =
          <<sessionSignerOf("0x111", sessionRequest, sessionAuthorizationSignature,
                            cacheArg)>>]
    /\ UNCHANGED <<reqs, backend, beyond>>

SignTransaction(r, calls, invocationSignerDetails) ==
    /\ signers[r] # <<>>
    /\ reqs[r].pc = "idle"
    /\ reqs' = [reqs EXCEPT ![r] =
          signTransactionStep(
              signTransactionArgs(signers[r][1], calls, invocationSignerDetails))]
    /\ UNCHANGED <<signers, backend, beyond>>

RequestGuardian(r) ==
    /\ reqs[r].pc = "signed"
    /\ backend' = [backend EXCEPT ![r] =
          <<[request |-> guardianRequestOf(reqs[r]), reply |-> <<>>]>>]
    /\ reqs' = [reqs EXCEPT ![r].pc = "awaitGuardian"]
    /\ UNCHANGED <<signers, beyond>>

GuardianResolve(r, guardianSignature) ==
    /\ reqs[r].pc = "awaitGuardian"
    /\ reqs' = [reqs EXCEPT ![r] = resumeWithGuardianSignature(reqs[r], guardianSignature)]
    /\ backend' = [backend EXCEPT ![r][1].reply = <<"resolved", guardianSignature>>]
    /\ UNCHANGED <<signers, beyond>>

GuardianReject(r, err) ==
    /\ reqs[r].pc = "awaitGuardian"
    /\ reqs' = [reqs EXCEPT ![r] = resumeWithGuardianError(reqs[r], err)]
    /\ backend' = [backend EXCEPT ![r][1].reply = <<"rejected", err>>]
    /\ UNCHANGED <<signers, beyond>>

\* the caller has taken the array or the error: the signer is free again
Return(r) ==
    /\ reqs[r].pc \in {"done", "failed"}
    /\ reqs' = [reqs EXCEPT ![r] = IdleReq]
    /\ backend' = [backend EXCEPT ![r] = <<>>]
    /\ UNCHANGED <<signers, beyond>>

\* Return, with the settled call put on record
ReturnLogged(r) ==
    /\ reqs[r].pc \in {"done", "failed"}
    /\ Len(log) < MaxAttempts
    /\ log' = Append(log, [req |-> reqs[r], call |-> backend[r]])
    /\ reqs' = [reqs EXCEPT ![r] = IdleReq]
    /\ backend' = [backend EXCEPT ![r] = <<>>]
    /\ UNCHANGED <<signers, outside, exec>>

\* TypedDataRevision of starknet.js: Active is "1", Legacy is "0"
TypedDataRevisions == {"0", "1"}

\* sessionDappService.getOutsideExecutionCall(...) as the tests call it. The
\* method and compileSessionSignatureFromOutside stand in a block comment
\* of the class body: the object has no such property, and calling it
\* throws before any argument is used.
GetOutsideExecutionCall(sessionRequest, cacheArg, calls, revision, address) ==
    /\ outside = <<>>
    /\ outside' =
          <<[args   |-> [sessionRequest |-> sessionRequest,
                        cacheArg       |-> cacheArg,
                        calls          |-> calls,
                        revision       |-> revision,
                        address        |-> address],
             thrown |-> "TypeError: getOutsideExecutionCall is not a function",
             call   |-> <<>>]>>
    /\ UNCHANGED <<signers, reqs, backend, log, exec>>

\* ------------------------------------------- offchain-session accounts
\* OffchainSessionAccount (offchainSessionAccount.ts) submits through the
\* wallet, OffchainSessionAccountV5 through the wrapped account.
Variants == {"wallet", "v5"}

\* Numbers come as [repr, value]: a number, a bigint, a hex string or a
\* decimal string of the same value are different things to the code.
Number(n) == <<"number", n>>
Bigint(n) == <<"bigint", n>>
HexString(n) == <<"hex", n>>
DecString(n) == <<"dec", n>>
ValueOf(x) == x[2]

\* num.toHex
toHex(x) == HexString(ValueOf(x))
\* x.toString(): a string is itself, a number or bigint its decimal digits
toString(x) == IF x[1] \in {"hex", "dec"} THEN x ELSE DecString(ValueOf(x))
\* !x of an optional BigNumberish: undefined, 0 and 0n are falsy, "0x0" is not
Falsy(opt) ==
    \/ opt = <<>>
    \/ opt[1][1] \in {"number", "bigint"} /\ ValueOf(opt[1]) = 0

\* the account the session acts for, and the session account itself
wrappedAccountAddress == "0x111"
sessionAccountAddress == "0x5e55"
OFFCHAIN_SESSION_ENTRYPOINT == "use_offchain_session"
\* sessionSignature: owner r, s as hex strings and cosigner r, s as decimal
\* strings
accountSessionSignature ==
    <<HexString(Str("owner_r")), HexString(Str("owner_s")),
      DecString(Str("cosigner_r")), DecString(Str("cosigner_s"))>>
\* signer.getPubKey()
signerPubKey == HexString(Str("dapp-public"))

\* the calls argument: one Call or an array of them
ExecuteCallArguments ==
    {<<"call", Call("0xabc", "transfer")>>,
     <<"array", <<>>>>,
     <<"array", <<Call("0xabc", "transfer")>>>>,
     <<"array", <<Call("0xdef", "other"), Call("0xabc", "transfer")>>>>,
     <<"array", <<Call("0xabc", "transfer"), Call("0xabc", "transfer")>>>>}

\* ensureArray (./ensureArray)
ensureArray(calls) == IF calls[1] = "array" THEN calls[2] ELSE <<calls[2]>>

\* InvocationsDetails / UniversalDetails as callers give them: nonce and
\* maxFee, each optional
DetailsOf(nonce, maxFee) == [nonce |-> nonce, maxFee |-> maxFee]
NonceArguments == {<<>>, <<Number(0)>>, <<HexString(5)>>}
MaxFeeArguments == {<<>>, <<Number(0)>>, <<HexString(0)>>, <<Bigint(700)>>, <<HexString(700)>>}
DetailsArguments == {DetailsOf(n, f) : n \in NonceArguments, f \in MaxFeeArguments}

\* the second argument: undefined, an array of abis, or (v5) details
SecondArguments ==
    {<<"undefined">>, <<"abis">>}
    \cup {<<"details", d>> :
            d \in {DetailsOf(<<Number(0)>>, <<Bigint(700)>>), DetailsOf(<<>>, <<>>)}}

\* what the provider, the signer and the submission may answer
ChainIds == {chainId}
Nonces == {Bigint(3)}
Simulations ==
    {[suggestedMaxFee |-> <<Bigint(900)>>, overall_fee |-> Bigint(600)],
     [suggestedMaxFee |-> <<>>, overall_fee |-> Bigint(600)]}
SuggestedFees == {Bigint(800)}
ProviderErrors == {"provider error"}
SignerErrors == {"signer error"}
SubmitErrors == {"submission rejected"}
TransactionHashes == {Str("0xtx")}

failedExec(e, message) == [e EXCEPT !.pc = "failed", !.error = message]
calling(e, what) == [e EXCEPT !.pc = what, !.trace = Append(e.trace, what)]

\* the signer's answer: a signature of the transactions and signer details
\* it was called with, r and s as hex strings
signerSignTransaction(transactions, signerDetails) ==
    <<HexString(<<"dapp_r", transactions, signerDetails>>),
      HexString(<<"dapp_s", transactions, signerDetails>>)>>

\* stark.formatSignature: every element as a hex string
formatSignature(signature) == [i \in 1..Len(signature) |-> toHex(signature[i])]
\* CallData.compile of an object of felts: its values in key order, each as
\* a decimal string
compileFelts(values) == [i \in 1..Len(values) |-> DecString(ValueOf(values[i]))]

\* sessionToCall, with the details the wallet variant attaches
sessionToCall(variant, dappSignature, offchainSessionDetails) ==
    LET signature == formatSignature(accountSessionSignature)
        formattedDappSignature == formatSignature(dappSignature)
        calldata == compileFelts(<<signerPubKey,
                                   formattedDappSignature[1],
                                   formattedDappSignature[2],
                                   signature[1], signature[2],
                                   signature[3], signature[4]>>)
    IN  IF variant = "v5"
        THEN [contractAddress |-> sessionAccountAddress,
              entrypoint      |-> OFFCHAIN_SESSION_ENTRYPOINT,
              calldata        |-> calldata]
        ELSE [contractAddress |-> sessionAccountAddress,
              entrypoint      |-> OFFCHAIN_SESSION_ENTRYPOINT,
              calldata        |-> calldata,
              offchainSessionDetails |-> <<offchainSessionDetails>>]

\* a call list with the session call at the end
extendCallsBySessionLast(variant, calls, dappSignature, offchainSessionDetails) ==
    calls \o <<sessionToCall(variant, dappSignature, offchainSessionDetails)>>

\* extendCallsBySession: [sessionCall, ...calls]
extendCallsBySession(variant, calls, dappSignature, offchainSessionDetails) ==
    <<sessionToCall(variant, dappSignature, offchainSessionDetails)>> \o calls

\* details with the fee raised by half once more, as
\* stark.estimatedFeeToMaxFee raises an estimate
submissionDetailsWithOverhead(e) ==
    [nonce   |-> e.nonce[1],
     maxFee  |-> DecString((ValueOf(e.maxFee[1]) * 3) \div 2),
     version |-> "0x1"]

\* { nonce, maxFee: maxFee.toString(), version } of the submission
submissionDetails(e) ==
    [nonce |-> e.nonce[1], maxFee |-> toString(e.maxFee[1]), version |-> "0x1"]

\* invokeParams.calls of the wallet variant; a caller's call has no
\* offchainSessionDetails
invokeParamsCalls(calls) ==
    [i \in 1..Len(calls) |->
        [contract_address |-> calls[i].contractAddress,
         entrypoint       |-> calls[i].entrypoint,
         calldata         |-> calls[i].calldata,
         offchainSessionDetails |->
             IF "offchainSessionDetails" \in DOMAIN calls[i]
             THEN calls[i].offchainSessionDetails ELSE <<>>]]

\* the details object execute reads: the wallet variant takes the third
\* argument, v5 the second one when it is neither undefined nor an array
detailsOf(variant, second, transactionsDetail) ==
    IF variant = "v5" /\ second[1] = "details" THEN second[2] ELSE transactionsDetail

\* execute up to its first await, getChainId
executeStart(variant, calls, second, transactionsDetail) ==
    calling([IdleExec EXCEPT
                !.variant = variant,
                !.calls = calls,
                !.second = second,
                !.third = <<transactionsDetail>>,
                !.transactions = ensureArray(calls),
                !.details = <<detailsOf(variant, second, transactionsDetail)>>],
            "getChainId")

\* maxFee is known: signerDetails are built and the signer is called
feeKnown(e, maxFee) ==
    calling([e EXCEPT
                !.maxFee = <<maxFee>>,
                !.signerDetails =
                    <<[walletAddress |-> wrappedAccountAddress,
                       nonce         |-> e.nonce[1],
                       maxFee        |-> maxFee,
                       version       |-> "0x1",
                       chainId       |-> e.chainId[1],
                       cairoVersion  |-> "1"]>>],
            "signTransaction")

\* the fee handling of the wallet variant in both classes
nonceKnownAlwaysSimulating(e, nonce) ==
    calling([e EXCEPT !.nonce = <<toHex(nonce)>>], "simulateTransaction")

\* the nonce is known: v5 keeps a truthy maxFee of the caller, otherwise
\* (and always in the wallet variant) the transaction is simulated
nonceKnown(e, nonce) ==
    LET known == [e EXCEPT !.nonce = <<toHex(nonce)>>]
    IN  IF e.variant = "v5" /\ ~Falsy(e.details[1].maxFee)
        THEN feeKnown(known, e.details[1].maxFee[1])
        ELSE calling(known, "simulateTransaction")

\* getChainId resolved: details.nonce ?? (await this.getNonce())
chainIdResolved(e, chain) ==
    LET known == [e EXCEPT !.chainId = <<chain>>]
    IN  IF e.details[1].nonce # <<>>
        THEN nonceKnown(known, e.details[1].nonce[1])
        ELSE calling(known, "getNonce")

\* simulateTransaction resolved: suggestedMaxFee ?? overall_fee
simulationResolved(e, estimation) ==
    feeKnown(e, IF estimation.suggestedMaxFee # <<>>
                THEN estimation.suggestedMaxFee[1]
                ELSE estimation.overall_fee)

\* a catch that goes on to sign with no fee
simulationRejectedSigning(e) ==
    calling([e EXCEPT !.maxFee = <<>>, !.signerDetails = <<>>], "signTransaction")

\* simulateTransaction rejected: the catch asks getSuggestedFee
simulationRejected(e) == calling(e, "getSuggestedFee")

\* what execute hands to account.execute (v5) or wallet.request
submissionOf(e, dappSignature) ==
    LET transactionsWithSession ==
            extendCallsBySession(e.variant, e.transactions, dappSignature,
                                 submissionDetails(e))
    IN  IF e.variant = "v5"
        THEN [via     |-> "account.execute",
              calls   |-> transactionsWithSession,
              details |-> <<submissionDetails(e)>>]
        ELSE [via     |-> "starknet_addInvokeTransaction",
              calls   |-> invokeParamsCalls(transactionsWithSession),
              details |-> <<>>]

\* the signature arrived: the session call is built and the list submitted
signatureResolved(e, dappSignature) ==
    calling([e EXCEPT !.dappSignature = <<dappSignature>>,
                      !.submitted = <<submissionOf(e, dappSignature)>>],
            "submit")

\* execute(calls, abis or details, transactionsDetail), one call at a time
Execute(variant, calls, second, transactionsDetail) ==
    /\ exec.pc = "idle"
    /\ exec' = executeStart(variant, calls, second, transactionsDetail)
    /\ UNCHANGED <<signers, reqs, backend, log, outside>>

ChainIdResolve(chain) ==
    /\ exec.pc = "getChainId"
    /\ exec' = chainIdResolved(exec, chain)
    /\ UNCHANGED <<signers, reqs, backend, log, outside>>

NonceResolve(nonce) ==
    /\ exec.pc = "getNonce"
    /\ exec' = nonceKnown(exec, nonce)
    /\ UNCHANGED <<signers, reqs, backend, log, outside>>

\* getChainId or getNonce rejected: nothing catches it
ProviderReject(err) ==
    /\ exec.pc \in {"getChainId", "getNonce"}
    /\ exec' = failedExec(exec, err)
    /\ UNCHANGED <<signers, reqs, backend, log, outside>>

SimulateResolve(estimation) ==
    /\ exec.pc = "simulateTransaction"
    /\ exec' = simulationResolved(exec, estimation)
    /\ UNCHANGED <<signers, reqs, backend, log, outside>>

SimulateReject ==
    /\ exec.pc = "simulateTransaction"
    /\ exec' = simulationRejected(exec)
    /\ UNCHANGED <<signers, reqs, backend, log, outside>>

SuggestedFeeResolve(fee) ==
    /\ exec.pc = "getSuggestedFee"
    /\ exec' = feeKnown(exec, fee)
    /\ UNCHANGED <<signers, reqs, backend, log, outside>>

\* getSuggestedFee rejected inside the catch block: execute rejects
SuggestedFeeReject(err) ==
    /\ exec.pc = "getSuggestedFee"
    /\ exec' = failedExec(exec, err)
    /\ UNCHANGED <<signers, reqs, backend, log, outside>>

\* signer.signTransaction resolved; getPubKey of the same signer resolves
\* with it, then the list is handed over for submission
SignerResolve ==
    /\ exec.pc = "signTransaction"
    /\ exec' = signatureResolved(
                   exec, signerSignTransaction(exec.transactions, exec.signerDetails[1]))
    /\ UNCHANGED <<signers, reqs, backend, log, outside>>

SignerReject(err) ==
    /\ exec.pc = "signTransaction"
    /\ exec' = failedExec(exec, err)
    /\ UNCHANGED <<signers, reqs, backend, log, outside>>

SubmitResolve(transaction_hash) ==
    /\ exec.pc = "submit"
    /\ exec' = [exec EXCEPT !.pc = "done", !.response = <<transaction_hash>>]
    /\ UNCHANGED <<signers, reqs, backend, log, outside>>

SubmitReject(err) ==
    /\ exec.pc = "submit"
    /\ exec' = failedExec(exec, err)
    /\ UNCHANGED <<signers, reqs, backend, log, outside>>

\* ---------------------------------------------------------- specifications
\* MaxReq signers of one DappService with their requests interleaved, over
\* two sessions, two batches, a V2 and an unknown version
Next ==
    \E r \in ReqIds :
        \/ \E sr \in ConcurrentSessionRequests, sig \in AuthorizationSignatures,
              c \in CacheArgs : GetAccountWithSessionSigner(r, sr, sig, c)
        \/ \E calls \in ConcurrentCallBatches, d \in ConcurrentSignerDetails :
              SignTransaction(r, calls, d)
        \/ RequestGuardian(r)
        \/ \E g \in GuardianSignatures : GuardianResolve(r, g)
        \/ \E e \in ConcurrentGuardianErrors : GuardianReject(r, e)
        \/ Return(r)

Spec == Init /\ [][Next]_vars

\* one signer, every session request and call batch within the bounds
NextOne ==
    \/ \E sr \in SessionRequests, sig \in LongAuthorizationSignatures,
          c \in CacheArgs : GetAccountWithSessionSigner(1, sr, sig, c)
    \/ \E calls \in CallBatches, d \in SignerDetails : SignTransaction(1, calls, d)
    \/ RequestGuardian(1)
    \/ \E g \in GuardianSignatures : GuardianResolve(1, g)
    \/ \E e \in GuardianErrors : GuardianReject(1, e)
    \/ Return(1)

SpecOne == Init /\ [][NextOne]_vars

\* one signer signing again and again, its settled calls on record
NextLog ==
    \/ \E sr \in ConcurrentSessionRequests, sig \in AuthorizationSignatures,
          c \in CacheArgs : GetAccountWithSessionSigner(1, sr, sig, c)
    \/ \E calls \in ConcurrentCallBatches, d \in ConcurrentSignerDetails :
          SignTransaction(1, calls, d)
    \/ RequestGuardian(1)
    \/ \E g \in GuardianSignatures : GuardianResolve(1, g)
    \/ \E e \in GuardianErrors : GuardianReject(1, e)
    \/ ReturnLogged(1)

SpecLog == Init /\ [][NextLog]_vars

\* a caller asking the service for an outside execution call
NextOutside ==
    \E sr \in ConcurrentSessionRequests, c \in CacheArgs, calls \in CallBatches,
       revision \in TypedDataRevisions, address \in AddrStrings :
        GetOutsideExecutionCall(sr, c, calls, revision, address)

SpecOutside == Init /\ [][NextOutside]_vars

\* one execute call of an offchain-session account of either kind
NextExec ==
    \/ \E calls \in ExecuteCallArguments, second \in {<<"undefined">>, <<"abis">>},
          d \in DetailsArguments : Execute("wallet", calls, second, d)
    \/ \E calls \in ExecuteCallArguments, second \in SecondArguments,
          d \in DetailsArguments : Execute("v5", calls, second, d)
    \/ \E c \in ChainIds : ChainIdResolve(c)
    \/ \E n \in Nonces : NonceResolve(n)
    \/ \E e \in ProviderErrors : ProviderReject(e)
    \/ \E sim \in Simulations : SimulateResolve(sim)
    \/ SimulateReject
    \/ \E f \in SuggestedFees : SuggestedFeeResolve(f)
    \/ \E e \in ProviderErrors : SuggestedFeeReject(e)
    \/ SignerResolve
    \/ \E e \in SignerErrors : SignerReject(e)
    \/ \E h \in TransactionHashes : SubmitResolve(h)
    \/ \E e \in SubmitErrors : SubmitReject(e)

SpecExec == Init /\ [][NextExec]_vars

\* ------------------------------------------------------------------ claims
Started(r) == reqs[r].pc # "idle"
ArgsOf(r) == reqs[r].args[1]
Asked(r) == backend[r] # <<>>
GuardianRejected(r) ==
    /\ Asked(r)
    /\ backend[r][1].reply # <<>>
    /\ backend[r][1].reply[1] = "rejected"
SupportedVersion(version) == version \in ETransactionVersion2 \cup ETransactionVersion3
Unmatched(sessionRequest, call) ==
    \A i \in 1..Len(sessionRequest.allowed_methods) :
        \/ sessionRequest.allowed_methods[i].ContractAddress # call.contractAddress
        \/ sessionRequest.allowed_methods[i].selector # call.entrypoint

\* C1: when the guardian's signTxAndSession call has failed, the signing
\* attempt has failed with that very error and holds neither a token nor a
\* signature array.
C1_GuardianFailureSurfaced ==
    \A r \in ReqIds :
        GuardianRejected(r) =>
            /\ reqs[r].pc = "failed"
            /\ reqs[r].error = backend[r][1].reply[2]
            /\ reqs[r].token = <<>>
            /\ reqs[r].result = <<>>

\* C1 witness: a guardian call has timed out and its request has failed
C1_Witness ==
    \E r \in ReqIds :
        /\ GuardianRejected(r)
        /\ backend[r][1].reply[2] = "timeout"
        /\ reqs[r].pc = "failed"

\* C2: a signTransaction whose version is neither a V2 nor a V3 version has
\* failed with the unsupported-version error, without a session-key
\* signature, a guardian request or a token.
C2_UnsupportedVersionFails ==
    \A r \in ReqIds :
        (Started(r) /\ ~SupportedVersion(ArgsOf(r).invocationSignerDetails.version)) =>
            /\ reqs[r].pc = "failed"
            /\ reqs[r].error = "unsupported signTransaction version"
            /\ reqs[r].transactionHash = <<>>
            /\ reqs[r].sessionSignature = <<>>
            /\ ~Asked(r)
            /\ reqs[r].token = <<>>
            /\ reqs[r].result = <<>>

\* C2 witness: a request with version 0x4 has failed
C2_Witness ==
    \E r \in ReqIds :
        /\ Started(r)
        /\ ArgsOf(r).invocationSignerDetails.version = "0x4"
        /\ reqs[r].pc = "failed"

\* C3: a batch with a call that matches no allowed method is rejected by a
\* membership check before anything is signed, the guardian is asked or a
\* token is compiled, and the error is the membership check's own.
C3_UnauthorizedCallRejectedFirst ==
    \A r \in ReqIds :
        (/\ Started(r)
         /\ SupportedVersion(ArgsOf(r).invocationSignerDetails.version)
         /\ \E i \in 1..Len(ArgsOf(r).calls) :
               Unmatched(ArgsOf(r).sessionRequest, ArgsOf(r).calls[i])) =>
            /\ reqs[r].pc = "failed"
            /\ reqs[r].sessionSignature = <<>>
            /\ ~Asked(r)
            /\ reqs[r].error \notin {"leaf not found"} \cup GuardianErrors

Done(r) == reqs[r].pc = "done"
TokenOf(r) == reqs[r].token[1]
CallLeaf(call) == MethodLeaf(call.contractAddress, call.entrypoint)
Matching(sessionRequest, call) ==
    {i \in 1..Len(sessionRequest.allowed_methods) :
        /\ sessionRequest.allowed_methods[i].ContractAddress = call.contractAddress
        /\ sessionRequest.allowed_methods[i].selector = call.entrypoint}

\* C4: no returned token holds, for a call that matches no allowed method, a
\* proof that verifies that call's leaf against the token's root.
C4_UnmatchedCallNeverVerifies ==
    \A r \in ReqIds :
        Done(r) =>
            \A i \in 1..Len(ArgsOf(r).calls) :
                Unmatched(ArgsOf(r).sessionRequest, ArgsOf(r).calls[i]) =>
                    \/ i > Len(TokenOf(r).proofs)
                    \/ ~proofMerklePath(TokenOf(r).session.allowed_methods_root,
                                        CallLeaf(ArgsOf(r).calls[i]),
                                        TokenOf(r).proofs[i])

\* C4 witness: the guardian has signed a batch with an unmatched call whose
\* leaf is in the tree (the address written with a leading zero), and the
\* request has ended without a token
C4_Witness ==
    \E r \in ReqIds :
        /\ reqs[r].pc = "failed"
        /\ Asked(r)
        /\ backend[r][1].reply # <<>>
        /\ backend[r][1].reply[1] = "resolved"
        /\ \E i \in 1..Len(ArgsOf(r).calls) :
              /\ Unmatched(ArgsOf(r).sessionRequest, ArgsOf(r).calls[i])
              /\ \E j \in 1..Len(ArgsOf(r).sessionRequest.allowed_methods) :
                    buildMerkleTreeLeaves(ArgsOf(r).sessionRequest)[j]
                        = CallLeaf(ArgsOf(r).calls[i])

\* C5: a returned token holds one proof per call, in call order; the proof
\* of every call that matches an allowed method verifies the leaf
\* Hash(domain tag, contract address, selector) of that method against the
\* token's root; no calls, no proofs.
C5_ProofPerCallVerifies ==
    \A r \in ReqIds :
        Done(r) =>
            /\ Len(TokenOf(r).proofs) = Len(ArgsOf(r).calls)
            /\ (ArgsOf(r).calls = <<>> => TokenOf(r).proofs = <<>>)
            /\ \A i \in 1..Len(ArgsOf(r).calls) :
                  \A j \in Matching(ArgsOf(r).sessionRequest, ArgsOf(r).calls[i]) :
                      proofMerklePath(
                          TokenOf(r).session.allowed_methods_root,
                          computePoseidonHashOnElements(
                              <<ALLOWED_METHOD_HASH,
                                BigInt(ArgsOf(r).sessionRequest.allowed_methods[j]
                                           .ContractAddress),
                                getSelectorFromName(
                                    ArgsOf(r).sessionRequest.allowed_methods[j]
                                        .selector)>>),
                          TokenOf(r).proofs[i])

\* C5 witness: a token for two different calls under a session of three
\* allowed methods, the second call's method being the odd last leaf
C5_Witness ==
    \E r \in ReqIds :
        /\ Done(r)
        /\ Len(ArgsOf(r).calls) = 2
        /\ Len(ArgsOf(r).sessionRequest.allowed_methods) = 3
        /\ ArgsOf(r).calls[1] # ArgsOf(r).calls[2]
        /\ Matching(ArgsOf(r).sessionRequest, ArgsOf(r).calls[2]) = {3}
        /\ TokenOf(r).proofs[1] # TokenOf(r).proofs[2]

\* C6: the root in a returned token, computed before the guardian was asked,
\* is the root of the tree getSessionProofs built after the guardian
\* answered, and both are the root over the request's allowed methods in
\* their given order.
C6_RootIsRootOfProofTree ==
    \A r \in ReqIds :
        /\ reqs[r].pc \in {"signed", "awaitGuardian", "done"} =>
              reqs[r].session[1].allowed_methods_root =
                  MerkleRoot([i \in 1..Len(ArgsOf(r).sessionRequest.allowed_methods) |->
                      MethodLeaf(
                          ArgsOf(r).sessionRequest.allowed_methods[i].ContractAddress,
                          ArgsOf(r).sessionRequest.allowed_methods[i].selector)])
        /\ Done(r) =>
              /\ TokenOf(r).session = reqs[r].session[1]
              /\ TokenOf(r).session.allowed_methods_root = reqs[r].proofTreeRoot

\* C6 witness: a token with a proof, under three allowed methods that are
\* not all the same
C6_Witness ==
    \E r \in ReqIds :
        /\ Done(r)
        /\ Len(ArgsOf(r).sessionRequest.allowed_methods) = 3
        /\ ArgsOf(r).sessionRequest.allowed_methods[1]
              # ArgsOf(r).sessionRequest.allowed_methods[3]
        /\ Len(TokenOf(r).proofs) > 0

\* The decoder of the wire format: the token a flat array spells, and
\* whether the array is used up exactly.
RECURSIVE DecodeArrays(_, _)
DecodeArrays(rest, count) ==
    IF count = 0 THEN [ok |-> rest = <<>>, arrays |-> <<>>]
    ELSE IF rest = <<>> \/ Head(rest)[1] # "num" \/ Head(rest)[2] + 1 > Len(rest)
    THEN [ok |-> FALSE, arrays |-> <<>>]
    ELSE LET n == Head(rest)[2]
             more == DecodeArrays(SubSeq(rest, n + 2, Len(rest)), count - 1)
         IN  [ok |-> more.ok, arrays |-> <<SubSeq(rest, 2, n + 1)>> \o more.arrays]

DecodeEnum(four) ==
    [variant |-> four[1][2], pubkey |-> four[2], r |-> four[3], s |-> four[4]]

DecodeToken(arr) ==
    LET n == arr[6][2]
        proofs == DecodeArrays(SubSeq(arr, 16 + n, Len(arr)), arr[15 + n][2])
    IN  [ok    |-> proofs.ok,
         token |->
            [session |-> [expires_at           |-> arr[1],
                          allowed_methods_root |-> arr[2],
                          metadata_hash        |-> arr[3],
                          session_key_guid     |-> arr[4]],
             cache_authorization   |-> arr[5] = <<"num", 1>>,
             session_authorization |-> SubSeq(arr, 7, 6 + n),
             sessionSignature      |-> DecodeEnum(SubSeq(arr, 7 + n, 10 + n)),
             guardianSignature     |-> DecodeEnum(SubSeq(arr, 11 + n, 14 + n)),
             proofs                |-> proofs.arrays]]

\* C9: a returned array starts with encodeShortString("session-token"), and
\* what follows is exactly the flat encoding of the token: session struct,
\* cache flag, authorization signature, session signature, guardian
\* signature, proofs, and nothing else.
C9_MagicThenToken ==
    \A r \in ReqIds :
        Done(r) =>
            /\ Len(reqs[r].result) >= 16
            /\ Head(reqs[r].result) = <<"felt", "session-token">>
            /\ reqs[r].result[6] \in {<<"num", 0>>, <<"num", 1>>}
            /\ DecodeToken(Tail(reqs[r].result)).ok
            /\ DecodeToken(Tail(reqs[r].result)).token = TokenOf(r)

\* C9 witness: a returned array whose token holds two proofs, one of them
\* not empty
C9_Witness ==
    \E r \in ReqIds :
        /\ Done(r)
        /\ Len(TokenOf(r).proofs) = 2
        /\ TokenOf(r).proofs[2] # <<>>
        /\ Len(reqs[r].result) > 16

Signed(r) == reqs[r].sessionSignature # <<>>
\* the message under a signature of the session key
SignedMessage(signature) == signature[1][2]

\* C7: two signing attempts with the same transaction hash and the same
\* session message hash but different cacheAuthorisation flags sign
\* different combined hashes, and their session signatures differ.
C7_CacheFlagChangesHash ==
    \A r, q \in ReqIds :
        (/\ Signed(r) /\ Signed(q)
         /\ reqs[r].transactionHash = reqs[q].transactionHash
         /\ reqs[r].sessionTypedData = reqs[q].sessionTypedData
         /\ ArgsOf(r).invocationSignerDetails.walletAddress
               = ArgsOf(q).invocationSignerDetails.walletAddress
         /\ ArgsOf(r).cacheAuthorisation # ArgsOf(q).cacheAuthorisation) =>
            /\ SignedMessage(reqs[r].sessionSignature)
                  # SignedMessage(reqs[q].sessionSignature)
            /\ reqs[r].sessionSignature # reqs[q].sessionSignature

\* C7 witness: two attempts signed, alike in transaction and session, one
\* with the flag and one without
C7_Witness ==
    \E r, q \in ReqIds :
        /\ Signed(r) /\ Signed(q)
        /\ reqs[r].transactionHash = reqs[q].transactionHash
        /\ reqs[r].sessionTypedData = reqs[q].sessionTypedData
        /\ ArgsOf(r).cacheAuthorisation
        /\ ~ArgsOf(q).cacheAuthorisation

\* what the guardian was sent for slot r
SentOf(r) == backend[r][1].request

\* the combined hash as the guardian derives it from what it was sent
CombinedHashOfSent(g) ==
    <<"hmany",
      <<transactionHashOf(g.calls, g.invocationSignerDetails),
        <<"typedDataHash", g.sessionTypedData,
          BigInt(g.invocationSignerDetails.walletAddress)>>,
        IF g.cacheAuthorisation THEN <<"num", 1>> ELSE <<"num", 0>>>>>>

C8_State ==
    \A r \in ReqIds :
        /\ Asked(r) =>
              /\ Signed(r)
              /\ SentOf(r).sessionSignature = reqs[r].sessionSignature
              /\ SentOf(r).calls = ArgsOf(r).calls
              /\ SentOf(r).invocationSignerDetails = ArgsOf(r).invocationSignerDetails
              /\ SentOf(r).sessionTypedData = reqs[r].sessionTypedData[1]
              /\ SentOf(r).cacheAuthorisation = ArgsOf(r).cacheAuthorisation
              /\ SignedMessage(SentOf(r).sessionSignature) = CombinedHashOfSent(SentOf(r))
        /\ Done(r) =>
              /\ Asked(r)
              /\ TokenOf(r).cache_authorization = SentOf(r).cacheAuthorisation
              /\ BoolNum(TokenOf(r).cache_authorization)
                    = SignedMessage(reqs[r].sessionSignature)[2][3]
              /\ <<TokenOf(r).sessionSignature.r, TokenOf(r).sessionSignature.s>>
                    = SentOf(r).sessionSignature

C8_Step ==
    \A r \in ReqIds :
        (~Asked(r) /\ Asked(r)') =>
            /\ Signed(r)
            /\ reqs[r].pc = "signed"
            /\ reqs'[r].sessionSignature = reqs[r].sessionSignature

\* C8: the guardian is asked only once the session key has signed; what it
\* is sent is that signature with the calls, signer details, typed data and
\* cache flag whose combined hash the signature is over; the flag in the
\* token is the flag in the signed hash and the flag sent to the guardian.
C8_GuardianAskedAfterSigning == []C8_State /\ [][C8_Step]_vars

\* C8 witness: a token with the cache flag set, after the guardian signed
C8_Witness ==
    \E r \in ReqIds :
        /\ Done(r)
        /\ Asked(r)
        /\ TokenOf(r).cache_authorization

\* what slot r holds of the service
SlotOf(r) == <<signers[r], reqs[r], backend[r]>>
Replied(r, how) ==
    /\ Asked(r)
    /\ backend[r][1].reply # <<>>
    /\ backend[r][1].reply[1] = how

\* the request of slot r as it stands after signTransaction's first part,
\* run on its own arguments alone
AloneSigned(r) == signTransactionStep(ArgsOf(r))

C10_State ==
    \A r \in ReqIds :
        Started(r) =>
            /\ ArgsOf(r).sessionRequest = signers[r][1].sessionRequest
            /\ ArgsOf(r).sessionAuthorizationSignature
                  = signers[r][1].sessionAuthorizationSignature
            /\ ArgsOf(r).cacheAuthorisation = signers[r][1].cacheAuthorisation
            /\ ~Asked(r) => reqs[r] = AloneSigned(r)
            /\ Asked(r) =>
                  /\ AloneSigned(r).pc = "signed"
                  /\ SentOf(r) =
                        [calls                   |-> ArgsOf(r).calls,
                         invocationSignerDetails |-> ArgsOf(r).invocationSignerDetails,
                         sessionTypedData        |-> AloneSigned(r).sessionTypedData[1],
                         sessionSignature        |-> AloneSigned(r).sessionSignature,
                         cacheAuthorisation      |-> ArgsOf(r).cacheAuthorisation]
            /\ (Asked(r) /\ backend[r][1].reply = <<>>) =>
                  reqs[r] = [AloneSigned(r) EXCEPT !.pc = "awaitGuardian"]
            /\ Replied(r, "resolved") =>
                  reqs[r] = resumeWithGuardianSignature(
                                [AloneSigned(r) EXCEPT !.pc = "awaitGuardian"],
                                backend[r][1].reply[2])
            /\ Replied(r, "rejected") =>
                  reqs[r] = [AloneSigned(r) EXCEPT !.pc = "failed",
                                                   !.error = backend[r][1].reply[2]]

C10_Step ==
    \A r, q \in ReqIds :
        (r # q /\ SlotOf(r)' # SlotOf(r)) => SlotOf(q)' = SlotOf(q)

\* C10: however the requests of one DappService interleave, what each sends
\* to the guardian and what each ends with are what its own session, calls,
\* signer details and flag give when it runs alone, and no step of one
\* request changes anything of another.
C10_RequestsAreIndependent == []C10_State /\ [][C10_Step]_vars

\* C10 witness: one request has its token while another, of a different
\* session, batch and flag, still waits for its guardian
C10_Witness ==
    \E r, q \in ReqIds :
        /\ Done(r)
        /\ reqs[q].pc = "awaitGuardian"
        /\ ArgsOf(r).sessionRequest # ArgsOf(q).sessionRequest
        /\ ArgsOf(r).calls # ArgsOf(q).calls
        /\ ArgsOf(r).cacheAuthorisation # ArgsOf(q).cacheAuthorisation
        /\ SentOf(r).sessionSignature # SentOf(q).sessionSignature

\* the signTransaction calls of signer 1 so far, the one in progress last
Attempts ==
    log \o (IF Started(1) THEN <<[req |-> reqs[1], call |-> backend[1]]>> ELSE <<>>)
FailedAtGuardian(a) ==
    /\ a.call # <<>>
    /\ a.call[1].reply # <<>>
    /\ a.call[1].reply[1] = "rejected"
    /\ a.req.pc = "failed"
Succeeded(a) == a.req.pc = "done"

\* a retry of i: a later call with the same session request, authorization
\* signature, calls, signer details and cache flag
RetryOf(i, j) ==
    /\ i < j
    /\ FailedAtGuardian(Attempts[i])
    /\ Attempts[j].req.args = Attempts[i].req.args

C11_State ==
    \A i, j \in 1..Len(Attempts) :
        /\ RetryOf(i, j) =>
              /\ Attempts[j].req.session = Attempts[i].req.session
              /\ Attempts[j].req.sessionSignature = Attempts[i].req.sessionSignature
              /\ SignedMessage(Attempts[j].req.sessionSignature)
                    = SignedMessage(Attempts[i].req.sessionSignature)
              /\ Attempts[j].call # <<>> =>
                    Attempts[j].call[1].request = Attempts[i].call[1].request
        /\ (/\ Succeeded(Attempts[i]) /\ Succeeded(Attempts[j])
            /\ Attempts[i].req.args = Attempts[j].req.args
            /\ Attempts[i].call[1].reply = Attempts[j].call[1].reply) =>
              /\ Attempts[j].req.token = Attempts[i].req.token
              /\ Attempts[j].req.result = Attempts[i].req.result

C11_Step ==
    \A r \in ReqIds :
        (reqs[r].pc = "awaitGuardian" /\ reqs'[r].pc = "failed") =>
            signers' = signers

\* C11: a signing attempt that fails at the guardian step leaves the signers
\* of the service as they were; a later attempt with the same session
\* request, calls, signer details and cache flag builds the same session and
\* signs the same combined hash, sends the guardian the same request and,
\* on the same answer, returns the token and array a first success returns.
C11_RetryIsIdempotent == []C11_State /\ [][C11_Step]_vars

\* C11 witness: a first call succeeded, a second with the same arguments
\* failed at the guardian, and the retry in progress has succeeded
C11_Witness ==
    /\ Len(log) = 2
    /\ Succeeded(log[1])
    /\ FailedAtGuardian(log[2])
    /\ log[2].req.args = log[1].req.args
    /\ Started(1)
    /\ reqs[1].pc = "done"
    /\ reqs[1].args = log[1].req.args

\* the integer codes of the data-availability modes
DamCode == [L1 |-> Num(0), L2 |-> Num(1)]
HashedTransaction(r) == reqs[r].transactionHash # <<>>

\* C12: the transaction hash of a signing attempt is the V2 invoke hash of
\* (sender = walletAddress, compiled calldata, version, maxFee, chainId,
\* nonce) for every V2-family version and the V3 invoke hash, with both
\* data-availability modes as their integer codes, for every V3-family
\* version; that hash is the first element of the combined hash the session
\* key signs.
C12_HashFormulaByVersion ==
    \A r \in ReqIds :
        HashedTransaction(r) =>
            LET d == ArgsOf(r).invocationSignerDetails
                calldata == getExecuteCalldata(ArgsOf(r).calls)
            IN  /\ d.version \in ETransactionVersion2 =>
                      reqs[r].transactionHash =
                          <<"invokeHashV2",
                            [senderAddress    |-> BigInt(d.walletAddress),
                             version          |-> d.version,
                             compiledCalldata |-> calldata,
                             maxFee           |-> d.maxFee,
                             chainId          |-> d.chainId,
                             nonce            |-> d.nonce]>>
                /\ d.version \in ETransactionVersion3 =>
                      reqs[r].transactionHash =
                          <<"invokeHashV3",
                            [senderAddress    |-> BigInt(d.walletAddress),
                             version          |-> d.version,
                             compiledCalldata |-> calldata,
                             chainId          |-> d.chainId,
                             nonce            |-> d.nonce,
                             nonceDataAvailabilityMode |->
                                 DamCode[d.nonceDataAvailabilityMode],
                             feeDataAvailabilityMode   |->
                                 DamCode[d.feeDataAvailabilityMode]]>>
                /\ d.version \in ETransactionVersion2 \cup ETransactionVersion3
                /\ Signed(r)
                /\ SignedMessage(reqs[r].sessionSignature)[2][1]
                      = reqs[r].transactionHash

\* C12 witness: a V3 query version and a two-call batch have been hashed
\* and signed, and the guardian has been asked
C12_Witness ==
    \E r \in ReqIds :
        /\ HashedTransaction(r)
        /\ ArgsOf(r).invocationSignerDetails.version
              = "0x100000000000000000000000000000003"
        /\ Len(ArgsOf(r).calls) = 2
        /\ reqs[r].transactionHash[1] = "invokeHashV3"
        /\ Asked(r)

Settled(a) == a.req.pc \in {"done", "failed"}

\* C13: every settled signTransaction call with a supported version has put
\* one request of its own to the guardian, and every call that returned a
\* token did so on the answer to that request; this holds of each call of a
\* signer in turn, whatever the calls before it were.
C13_OneGuardianRequestPerInvocation ==
    \A i \in 1..Len(Attempts) :
        (/\ Settled(Attempts[i])
         /\ SupportedVersion(Attempts[i].req.args[1].invocationSignerDetails.version)) =>
            /\ Attempts[i].call # <<>>
            /\ Attempts[i].call[1].request = guardianRequestOf(Attempts[i].req)
            /\ Succeeded(Attempts[i]) =>
                  /\ Attempts[i].call[1].reply # <<>>
                  /\ Attempts[i].call[1].reply[1] = "resolved"

\* the field elements a guardian request carries. A signature term names
\* the key that made it; it is the term that is sent, not the key.
EmittedInRequest(g) ==
    {g.sessionSignature[1], g.sessionSignature[2],
     g.sessionTypedData.domain,
     g.sessionTypedData.message.expires_at,
     g.sessionTypedData.message.allowed_methods_root,
     g.sessionTypedData.message.metadata_hash,
     g.sessionTypedData.message.session_key_guid,
     g.invocationSignerDetails.chainId,
     g.invocationSignerDetails.nonce,
     g.invocationSignerDetails.maxFee}
    \cup UNION {{g.calls[i].calldata[j] : j \in 1..Len(g.calls[i].calldata)} :
                  i \in 1..Len(g.calls)}
EmittedInResult(arr) == {arr[i] : i \in 1..Len(arr)}
ErrorMessages ==
    {"", "unsupported signTransaction version",
     "RangeError: Maximum call stack size exceeded", "leaf not found"}
    \cup GuardianErrors

\* C14: the dapp private key is an element neither of a guardian request nor
\* of a returned array or token, and no error carries it; a returned token
\* holds the dapp public key as the key of the session signature, which is
\* the signature of the private key over the combined hash.
C14_PrivateKeyNotEmitted ==
    \A r \in ReqIds :
        /\ Asked(r) => dappKey.privateKey \notin EmittedInRequest(SentOf(r))
        /\ dappKey.privateKey \notin EmittedInResult(reqs[r].result)
        /\ reqs[r].error \in ErrorMessages
        /\ Signed(r) =>
              reqs[r].sessionSignature =
                  starkCurveSign(SignedMessage(reqs[r].sessionSignature),
                                 dappKey.privateKey)
        /\ Done(r) =>
              /\ TokenOf(r).sessionSignature.pubkey = dappKey.publicKey
              /\ TokenOf(r).sessionSignature.pubkey # dappKey.privateKey
              /\ TokenOf(r).sessionSignature.r # dappKey.privateKey
              /\ TokenOf(r).sessionSignature.s # dappKey.privateKey
              /\ dappKey.publicKey \in EmittedInResult(reqs[r].result)

\* C14 witness: a two-call batch has been signed with the private key, sent
\* to the guardian and returned as an array
C14_Witness ==
    \E r \in ReqIds :
        /\ Done(r)
        /\ Len(ArgsOf(r).calls) = 2
        /\ Replied(r, "resolved")
        /\ reqs[r].sessionSignature[1][3] = dappKey.privateKey

\* where the authorization signature starts in a returned array: after
\* the magic, the four session fields, the cache flag and its own length
AuthorizationOffset == 1 + 4 + 1 + 1

\* C15: a returned token holds the authorization signature given when the
\* signer was created, element for element and in order, and the returned
\* array holds its length and then its elements, whatever the calls, the
\* version and the cache flag.
C15_AuthorizationSignatureUnchanged ==
    \A r \in ReqIds :
        Done(r) =>
            LET given == signers[r][1].sessionAuthorizationSignature
            IN  /\ TokenOf(r).session_authorization = given
                /\ reqs[r].result[AuthorizationOffset] = Num(Len(given))
                /\ SubSeq(reqs[r].result, AuthorizationOffset + 1,
                          AuthorizationOffset + Len(given)) = given

\* C15 witness: a token for a V3 transaction with the cache flag set holds
\* an authorization signature of three elements
C15_Witness ==
    \E r \in ReqIds :
        /\ Done(r)
        /\ Len(signers[r][1].sessionAuthorizationSignature) = 3
        /\ ArgsOf(r).cacheAuthorisation
        /\ ArgsOf(r).invocationSignerDetails.version = "0x3"
        /\ Len(TokenOf(r).session_authorization) = 3

\* C16: getOutsideExecutionCall returns a call to the given account address
\* whose entrypoint is "execute_from_outside_v2" for revision Active and
\* "execute_from_outside" for revision Legacy, with a sequence as calldata.
C16_OutsideExecutionCallByRevision ==
    outside # <<>> =>
        /\ outside[1].thrown = ""
        /\ outside[1].call # <<>>
        /\ outside[1].call[1].contractAddress = outside[1].args.address
        /\ outside[1].call[1].entrypoint =
              (IF outside[1].args.revision = "1"
               THEN "execute_from_outside_v2" ELSE "execute_from_outside")
        /\ Len(outside[1].call[1].calldata) >= 0

C18_State ==
    \A i \in 1..Len(Attempts) :
        LET a == Attempts[i].req.args[1]
        IN  /\ a.sessionRequest = signers[1][1].sessionRequest
            /\ a.sessionAuthorizationSignature
                  = signers[1][1].sessionAuthorizationSignature
            /\ a.cacheAuthorisation = signers[1][1].cacheAuthorisation
            /\ Attempts[i].call # <<>> =>
                  /\ Attempts[i].call[1].request.sessionTypedData.message
                        = compileSessionHelper(signers[1][1].sessionRequest)
                  /\ Attempts[i].call[1].request.cacheAuthorisation
                        = signers[1][1].cacheAuthorisation
            /\ Succeeded(Attempts[i]) =>
                  Attempts[i].req.token[1].session_authorization
                      = signers[1][1].sessionAuthorizationSignature

C18_Step ==
    \A r \in ReqIds :
        /\ signers[r] # <<>> => signers'[r] = signers[r]
        /\ \A sr \in SessionRequests, sig \in LongAuthorizationSignatures,
              c \in CacheArgs :
                GetAccountWithSessionSigner(r, sr, sig, c) =>
                    /\ signers'[r][1].sessionRequest = sr
                    /\ signers'[r][1].sessionAuthorizationSignature = sig
                    /\ signers'[r][1].cacheAuthorisation
                          = (IF c = <<>> THEN FALSE ELSE c[1])

\* C18: the signer of the Account that getAccountWithSessionSigner returns
\* holds the session request and authorization signature it was given and
\* the cache flag it was given, false when none was; it never changes, and
\* every signing call of the Account, the first and the later ones, runs
\* signTransaction on exactly these three.
C18_SignerKeepsWhatItWasGiven == []C18_State /\ [][C18_Step]_vars

\* C18 witness: a signer with the cache flag false has settled two signing
\* calls of different batches and is in a third that asked the guardian
C18_Witness ==
    /\ Len(log) = 2
    /\ log[1].req.args[1].calls # log[2].req.args[1].calls
    /\ Started(1)
    /\ Asked(1)
    /\ ~signers[1][1].cacheAuthorisation

Submitted == exec.submitted # <<>>
\* the transaction details of a submission: the second argument of
\* account.execute, or what the session call carries to the wallet
SubmittedDetails ==
    IF exec.variant = "v5"
    THEN exec.submitted[1].details[1]
    ELSE exec.submitted[1].calls[1].offchainSessionDetails[1]
FeeQueries == {"simulateTransaction", "getSuggestedFee"}
Position(what) == CHOOSE i \in 1..Len(exec.trace) : exec.trace[i] = what
Called(what) == \E i \in 1..Len(exec.trace) : exec.trace[i] = what

\* C17: what execute submits carries the nonce, the maxFee (by value) and
\* the version of the signer details the dapp signature was made over, the
\* version being "0x1"; once the signer has been called no fee is simulated
\* or estimated any more.
C17_SubmittedDetailsAreSignedDetails ==
    /\ exec.signerDetails # <<>> => exec.signerDetails[1].version = "0x1"
    /\ Called("signTransaction") =>
          \A j \in 1..Len(exec.trace) :
              j > Position("signTransaction") => exec.trace[j] \notin FeeQueries
    /\ Submitted =>
          /\ exec.dappSignature[1]
                = signerSignTransaction(exec.transactions, exec.signerDetails[1])
          /\ SubmittedDetails.nonce = exec.signerDetails[1].nonce
          /\ ValueOf(SubmittedDetails.maxFee) = ValueOf(exec.signerDetails[1].maxFee)
          /\ SubmittedDetails.version = exec.signerDetails[1].version

\* C17 witness: the wallet variant has submitted after a failed simulation,
\* with the estimated fee of 800 as a decimal string
C17_Witness ==
    /\ Submitted
    /\ exec.variant = "wallet"
    /\ Called("getSuggestedFee")
    /\ exec.signerDetails[1].maxFee = Bigint(800)
    /\ SubmittedDetails.maxFee = DecString(800)

\* the address a submitted call goes to: the wallet takes contract_address
SubmittedAddress(c) ==
    IF exec.variant = "v5" THEN c.contractAddress ELSE c.contract_address
SubmittedCalls == exec.submitted[1].calls
\* the caller's calls: the argument itself, or the one call in a list
CallerCalls == IF exec.calls[1] = "array" THEN exec.calls[2] ELSE <<exec.calls[2]>>

\* C19: the list execute submits is the caller's calls with one call put in
\* front: that call goes to the session account's own address with
\* entrypoint "use_offchain_session", the caller's calls follow it in their
\* order with address, entrypoint and calldata as given, and the dapp
\* signature in the first call's calldata is the signer's signature over
\* the caller's calls alone.
C19_SessionCallFirstThenCallerCalls ==
    Submitted =>
        /\ Len(SubmittedCalls) = Len(CallerCalls) + 1
        /\ SubmittedAddress(SubmittedCalls[1]) = sessionAccountAddress
        /\ SubmittedCalls[1].entrypoint = "use_offchain_session"
        /\ \A i \in 1..Len(CallerCalls) :
              /\ SubmittedAddress(SubmittedCalls[i + 1]) = CallerCalls[i].contractAddress
              /\ SubmittedCalls[i + 1].entrypoint = CallerCalls[i].entrypoint
              /\ SubmittedCalls[i + 1].calldata = CallerCalls[i].calldata
              /\ exec.variant = "v5" => SubmittedCalls[i + 1] = CallerCalls[i]
        /\ ValueOf(SubmittedCalls[1].calldata[2])
              = <<"dapp_r", CallerCalls, exec.signerDetails[1]>>
        /\ ValueOf(SubmittedCalls[1].calldata[3])
              = <<"dapp_s", CallerCalls, exec.signerDetails[1]>>

\* C19 witness: the wallet variant has submitted three calls for a caller's
\* two different calls
C19_Witness ==
    /\ Submitted
    /\ exec.variant = "wallet"
    /\ Len(CallerCalls) = 2
    /\ CallerCalls[1] # CallerCalls[2]
    /\ Len(SubmittedCalls) = 3

LastCalled == exec.trace[Len(exec.trace)]
\* the caller's maxFee as the v5 account keeps it: present and not 0 or 0n
CallerFeeKept ==
    /\ exec.variant = "v5"
    /\ exec.details[1].maxFee # <<>>
    /\ exec.details[1].maxFee[1] \notin {Number(0), Bigint(0)}

C20_State ==
    /\ Called("getSuggestedFee") =>
          /\ Called("simulateTransaction")
          /\ Position("getSuggestedFee") = Position("simulateTransaction") + 1
    /\ (exec.pc = "failed" /\ LastCalled = "getSuggestedFee") =>
          /\ ~Called("signTransaction")
          /\ ~Called("submit")
          /\ exec.dappSignature = <<>>
          /\ exec.submitted = <<>>
    /\ Called("signTransaction") =>
          /\ exec.maxFee # <<>>
          /\ exec.signerDetails # <<>>
          /\ exec.signerDetails[1].maxFee = exec.maxFee[1]
          /\ \/ CallerFeeKept
             \/ /\ Called("simulateTransaction")
                /\ Position("simulateTransaction") < Position("signTransaction")
    /\ Called("submit") <=> Submitted
    /\ Called("submit") =>
          /\ Called("signTransaction")
          /\ Position("signTransaction") < Position("submit")
          /\ exec.dappSignature # <<>>

C20_Step ==
    /\ (exec.pc = "simulateTransaction" /\ exec'.pc # "signTransaction") =>
          /\ exec'.pc = "getSuggestedFee"
          /\ exec'.trace = Append(exec.trace, "getSuggestedFee")
          /\ exec'.maxFee = <<>>
    /\ (exec.pc = "getSuggestedFee" /\ exec'.pc = "signTransaction") =>
          exec'.maxFee[1] \in SuggestedFees
    /\ (exec.pc = "getSuggestedFee" /\ exec'.pc # "signTransaction") =>
          /\ exec'.pc = "failed"
          /\ exec'.trace = exec.trace

\* C20: a failed simulation is followed by getSuggestedFee, whose answer
\* becomes the fee; if that fails too, execute has failed with no signer
\* call and no submission. The signer is only called once maxFee is set, to
\* the caller's fee or an answer of the two fee queries, and a submission
\* only follows a signer call that gave a signature.
C20_FeeThenSignatureThenSubmission == []C20_State /\ [][C20_Step]_vars

\* C20 witness: the wallet variant's simulation and estimate both failed and
\* execute has failed
C20_Witness ==
    /\ exec.pc = "failed"
    /\ exec.variant = "wallet"
    /\ LastCalled = "getSuggestedFee"
    /\ exec.error = "provider error"

\* the details argument of a v5 call as the caller passed it: the second
\* argument when that is a details object, the third otherwise
CallerDetails ==
    IF exec.second[1] = "details" THEN exec.second[2] ELSE exec.third[1]
CallerGaveFee ==
    /\ CallerDetails.maxFee # <<>>
    /\ ValueOf(CallerDetails.maxFee[1]) # 0
CallerGaveNonce == CallerDetails.nonce # <<>>

\* C21: a v5 execute given a maxFee other than zero, in details passed
\* second or third, makes no simulateTransaction and no getSuggestedFee
\* call, signs signer details with that very maxFee and submits its value;
\* given a nonce, it makes no getNonce call and signs and submits that
\* nonce's value.
C21_CallerFeeAndNonceKept ==
    (exec.variant = "v5" /\ exec.pc # "idle") =>
        /\ CallerGaveFee =>
              /\ ~Called("simulateTransaction")
              /\ ~Called("getSuggestedFee")
              /\ exec.nonce # <<>> =>
                    /\ exec.signerDetails # <<>>
                    /\ exec.signerDetails[1].maxFee = CallerDetails.maxFee[1]
                    /\ Called("signTransaction")
              /\ Submitted =>
                    ValueOf(SubmittedDetails.maxFee)
                        = ValueOf(CallerDetails.maxFee[1])
        /\ CallerGaveNonce =>
              /\ ~Called("getNonce")
              /\ exec.nonce # <<>> =>
                    ValueOf(exec.nonce[1]) = ValueOf(CallerDetails.nonce[1])
              /\ exec.signerDetails # <<>> =>
                    ValueOf(exec.signerDetails[1].nonce)
                        = ValueOf(CallerDetails.nonce[1])
              /\ Submitted =>
                    ValueOf(SubmittedDetails.nonce)
                        = ValueOf(CallerDetails.nonce[1])

\* C21 witness: a v5 execute given nonce 0 and maxFee 700n as its second
\* argument has submitted after getChainId and the signer call alone
C21_Witness ==
    /\ exec.variant = "v5"
    /\ exec.second = <<"details", DetailsOf(<<Number(0)>>, <<Bigint(700)>>)>>
    /\ Submitted
    /\ exec.trace = <<"getChainId", "signTransaction", "submit">>
    /\ SubmittedDetails.maxFee = DecString(700)
    /\ SubmittedDetails.nonce = HexString(0)

\* the same with the details passed third, after an array of abis: a nonce
\* "0x5" and a maxFee "0x2bc" have been submitted without a query
C21_ThirdArgumentKept ==
    /\ exec.variant = "v5"
    /\ exec.second = <<"abis">>
    /\ exec.third = <<DetailsOf(<<HexString(5)>>, <<HexString(700)>>)>>
    /\ Submitted
    /\ exec.trace = <<"getChainId", "signTransaction", "submit">>

\* the two hashes under a combined hash: the transaction hash and the
\* session message hash
TransactionHashUnder(combined) == combined[2][1]
MessageHashUnder(combined) == combined[2][2]
\* the account a session message hash is bound to
AccountOf(messageHash) == messageHash[3]

\* C22: in every signing attempt that has signed, the session message hash
\* under the combined hash is bound to the walletAddress of the signer
\* details, and the transaction hash under it has that same address as its
\* senderAddress.
C22_BothHashesNameTheWallet ==
    \A r \in ReqIds :
        Signed(r) =>
            LET combined == SignedMessage(reqs[r].sessionSignature)
                wallet == BigInt(ArgsOf(r).invocationSignerDetails.walletAddress)
            IN  /\ MessageHashUnder(combined)[1] = "typedDataHash"
                /\ AccountOf(MessageHashUnder(combined)) = wallet
                /\ TransactionHashUnder(combined)[2].senderAddress = wallet
                /\ TransactionHashUnder(combined) = reqs[r].transactionHash
                /\ AccountOf(MessageHashUnder(combined))
                      = TransactionHashUnder(combined)[2].senderAddress

\* C22 witness: a signer created for 0x111 has signed a V3 transaction of
\* wallet 0x222 and the guardian has answered
C22_Witness ==
    \E r \in ReqIds :
        /\ Done(r)
        /\ signers[r][1].address = "0x111"
        /\ ArgsOf(r).invocationSignerDetails.walletAddress = "0x222"
        /\ ArgsOf(r).invocationSignerDetails.version = "0x3"
        /\ AccountOf(MessageHashUnder(SignedMessage(reqs[r].sessionSignature)))
              = Str("0x222")

=============================================================================
